---- MODULE Spec2Model ----
(***************************************************************************)
(* Force-directed graph renderer (src/forcegraph/render.py): the node      *)
(* store, the force registry, the link table and the per-frame integration *)
(* step, as a state machine; and the renderer of src/hamiltonian/render.py,*)
(* whose nodes move without forces.  A program runs one of the two.        *)
(*                                                                         *)
(* Numbers.  The program computes in floating point; the model computes in *)
(* fixed point.  One length unit is 0.005, so the default center           *)
(* (0.5, 0.5) is <<100, 100>> and the spring threshold 0.01 is 2.  Angles  *)
(* are counted in quarter turns, so that cos and sin are exact.  A         *)
(* quotient is truncated toward zero and a norm is the integer square      *)
(* root.  The instance is built with the time step T = 1 and the friction  *)
(* coefficient f = 1, and every node a caller adds is given the mass 1, so *)
(* that F * T / mass is exact.  An optional value (None in the source) is  *)
(* the empty sequence, a present value v is <<v>>.                         *)
(***************************************************************************)
EXTENDS Integers, Sequences, FiniteSets, TLC

VARIABLES
    phase,      \* "new": constructed; "init": inside load(), in the init callback; "run": loaded
    nodes,      \* Render.nodes: dict id -> Node, as the sequence of Nodes in insertion order
    forces,     \* Render.forces: pair key -> sequence of laws
    lines,      \* Render.lines: pair key -> (x, y, kwargs)
    radius,     \* Render.radius: <<>> (None) or <<r>>
    center,     \* Render.center
    nodes_ar,   \* Render.nodes_ar: row id of the array is nodes_ar[id + 1]; <<>> before load()
    steps,      \* number of next_frame() calls made so far
    last,       \* the last call made and how it ended
    probe,      \* a single evaluation of Spring.get_force (SpecSpring only)
    engine,     \* the module the program runs: "forcegraph" or "hamiltonian"
    ham         \* the Render of src/hamiltonian/render.py: its nodes, lines and nodes_ar

vars ==
    <<phase, nodes, forces, lines, radius, center, nodes_ar, steps, last, probe, engine, ham>>

(* ------------------------------ bounds --------------------------------- *)

\* At most MaxSetup nodes and laws are registered after load() has added node 0.
MaxSetup == 3
\* At most MaxSteps next_frame calls.
MaxSteps == 2
\* SpecSpring: stiffness, rest length and displacement components up to MaxProbe.
MaxProbe == 3

(* --------------------------- program constants ------------------------- *)

\* Render.__init__: self.center = np.array((0.5, 0.5))
Center0 == <<100, 100>>
\* Render.__init__: self.m = 1e5 (the default mass)
m == 100000
\* Spring.get_force: if n < 0.01
Threshold == 2
\* Render(T, f): the time step and the friction coefficient the instance is built with
T == 1
f == 1

(* ------------------------------ inputs --------------------------------- *)

\* the ids add_node is called with: node 0 is load()'s, and {0, 2} is not
\* contiguous
Ids == {0, 1, 2}
\* the angles np.random.rand() draws
Angles == {0, 1}
\* radii given to set_radius
RadiusChoices == {2}
\* the laws given to add_force: a zero-rest-length spring and a general one
LawChoices == {[K |-> 1, l0 |-> 0], [K |-> 2, l0 |-> 2]}
\* the arguments add_node is called with: a free node at a position (linked to
\* node 0 or not), a static one, a node at an angle (given or drawn, free or
\* static), and a node given both a position and an angle
NodeArgs ==
    {[pos |-> <<<<104, 100>>>>, theta |-> <<>>, link_to |-> <<>>, mass |-> <<1>>, static |-> FALSE],
     [pos |-> <<<<104, 100>>>>, theta |-> <<>>, link_to |-> <<0>>, mass |-> <<1>>, static |-> FALSE],
     [pos |-> <<<<104, 100>>>>, theta |-> <<>>, link_to |-> <<>>, mass |-> <<1>>, static |-> TRUE],
     [pos |-> <<>>, theta |-> <<1>>, link_to |-> <<>>, mass |-> <<1>>, static |-> FALSE],
     [pos |-> <<>>, theta |-> <<1>>, link_to |-> <<>>, mass |-> <<1>>, static |-> TRUE],
     [pos |-> <<>>, theta |-> <<>>, link_to |-> <<>>, mass |-> <<1>>, static |-> FALSE],
     [pos |-> <<<<104, 100>>>>, theta |-> <<1>>, link_to |-> <<>>, mass |-> <<1>>, static |-> FALSE]}

(* ------------------------------ vectors -------------------------------- *)

VZero == <<0, 0>>
VAdd(a, b) == <<a[1] + b[1], a[2] + b[2]>>
VSub(a, b) == <<a[1] - b[1], a[2] - b[2]>>
VScale(k, a) == <<k * a[1], k * a[2]>>

\* a / b in fixed point
TruncDiv(a, b) == IF a >= 0 THEN a \div b ELSE -((-a) \div b)
VDiv(a, b) == <<TruncDiv(a[1], b), TruncDiv(a[2], b)>>

ISqrt(n) == CHOOSE r \in 0..n : r * r <= n /\ (r + 1) * (r + 1) > n
\* np.linalg.norm
Norm(d) == ISqrt(d[1] * d[1] + d[2] * d[2])

\* np.cos, np.sin of an angle in quarter turns
Cos(t) == CASE t % 4 = 0 -> 1 [] t % 4 = 1 -> 0 [] t % 4 = 2 -> -1 [] OTHER -> 0
Sin(t) == CASE t % 4 = 0 -> 0 [] t % 4 = 1 -> 1 [] t % 4 = 2 -> 0 [] OTHER -> -1

\* the point of the circle at an angle
OnCircle(c, r, theta) == VAdd(c, <<r * Cos(theta), r * Sin(theta)>>)

(* ------------------------------ the store ------------------------------ *)

\* Node.__init__
Node(i, posi, static, mass, theta) ==
    [i |-> i, pos |-> posi, theta |-> theta, v |-> VZero, mass |-> mass, static |-> static]

NodeIds(ns) == {ns[k].i : k \in 1..Len(ns)}
\* self.nodes[i]
NodeAt(ns, i) == ns[CHOOSE k \in 1..Len(ns) : ns[k].i = i]

\* nmlz without the sort: the key keeps the order of its arguments
nmlz_Ordered(i, j) == <<i, j>>

\* Render.nmlz: tuple(sorted([i, j]))
nmlz(i, j) == IF i <= j THEN <<i, j>> ELSE <<j, i>>

Keys == {nmlz(i, j) : i \in Ids, j \in Ids}

\* Render.link: self.lines[id] = (0, 0, kwargs)
link(ls, a, b, kwargs) ==
    LET id == nmlz(a, b)
    IN  [k \in DOMAIN ls \cup {id} |->
            IF k = id THEN [x |-> <<>>, y |-> <<>>, kwargs |-> kwargs] ELSE ls[k]]

(* ------------------------------ the laws ------------------------------- *)

\* get_force with the near-zero test reduced to a test for zero
get_force_NoThreshold(law, d) ==
    LET n == Norm(d)
    IN  IF law.l0 = 0 THEN VScale(law.K, d)
        ELSE IF n = 0 THEN VScale(0, d)
        ELSE VDiv(VScale(law.K * (n - law.l0), d), n)

\* Spring.get_force(node0, node1, d), for the law [K, l0]
get_force(law, d) ==
    LET n == Norm(d)
    IN  IF law.l0 = 0 THEN VScale(law.K, d)
        ELSE IF n < Threshold THEN VScale(0, d)
        ELSE VDiv(VScale(law.K * (n - law.l0), d), n)

\* force_on, the inner loop: for force in self.forces[id]: F += force.get_force(node, node0, d)
RECURSIVE SumLaws(_, _)
SumLaws(laws, d) ==
    IF laws = <<>> THEN VZero
    ELSE VAdd(get_force(Head(laws), d), SumLaws(Tail(laws), d))

\* force_on: id = self.nmlz(node0.i, node.i); self.forces[id]
LawsApplied(fs, i0, i) == fs[nmlz(i0, i)]

\* force_on, the outer loop over the first k nodes of the store
RECURSIVE PairSum(_, _, _, _)
PairSum(fs, ns, node0, k) ==
    IF k = 0 THEN VZero
    ELSE VAdd(PairSum(fs, ns, node0, k - 1),
              SumLaws(LawsApplied(fs, node0.i, ns[k].i), VSub(ns[k].pos, node0.pos)))

\* force_on, the damping term: fr = - node.v * self.f, where node is the loop
\* variable of the loop over self.nodes.values(), left at the last node of the store
Damping(ns, node0) == VScale(-f, ns[Len(ns)].v)

\* Render.force_on
force_on(fs, ns, node0) == VAdd(PairSum(fs, ns, node0, Len(ns)), Damping(ns, node0))

(* ------------------------------ the step ------------------------------- *)

\* if self.radius:
RadiusOn(rad) == rad # <<>> /\ rad[1] # 0

\* next_frame without the test of node.static
IsStatic_Never(node) == FALSE

\* next_frame: if node.static
IsStatic(node) == node.static

\* the position computed without the radius
CirclePos_NoRadius(c, r, theta) == VAdd(c, <<Cos(theta), Sin(theta)>>)

\* next_frame: pos = self.center + np.array((r * np.cos(theta), r * np.sin(theta)))
CirclePos(c, r, theta) == VAdd(c, <<r * Cos(theta), r * Sin(theta)>>)

\* next_frame, the branch taken when a radius is set; np.sin(None) raises
CircleUpdate(rad, c, node, F) ==
    IF node.theta = <<>>
    THEN [pos |-> node.pos, v |-> node.v, theta |-> node.theta, err |-> "TypeError"]
    ELSE LET r == rad[1]
             t == node.theta[1]
             F_theta == -F[1] * Sin(t) + F[2] * Cos(t)
             dv == TruncDiv(F_theta * T, node.mass)
             theta == t + TruncDiv(dv, r)
         IN  [pos |-> CirclePos(c, r, theta), v |-> <<node.v[1], node.v[2] + dv>>,
              theta |-> <<theta>>, err |-> "ok"]

\* next_frame, the branch taken when no radius is set
FreeUpdate(node, F) ==
    LET v == VAdd(node.v, VDiv(VScale(T, F), node.mass))
    IN  [pos |-> VAdd(node.pos, VScale(T, v)), v |-> v, theta |-> node.theta, err |-> "ok"]

\* next_frame, one pass of the first loop: the next (pos, v) of a node, the
\* angle stored into node.theta on the way, and whether the pass raises
NewValue(fs, ns, rad, c, node) ==
    IF IsStatic(node)
    THEN [pos |-> node.pos, v |-> node.v, theta |-> node.theta, err |-> "ok"]
    ELSE LET F == force_on(fs, ns, node)
         IN  IF RadiusOn(rad) THEN CircleUpdate(rad, c, node, F) ELSE FreeUpdate(node, F)

\* the least element of a set of indexes, or 0 when it is empty
First(S) == IF S = {} THEN 0 ELSE CHOOSE k \in S : \A j \in S : k <= j

\* self.nodes_ar[i, :] = ... raises IndexError when row i is not in the array
RowMissing(ar, i) == i >= Len(ar)

\* next_frame, the last loop: the endpoints of every line, read from the array
RefreshLines(ls, ar) ==
    [k \in DOMAIN ls |->
        [x |-> <<ar[k[1] + 1][1], ar[k[2] + 1][1]>>,
         y |-> <<ar[k[1] + 1][2], ar[k[2] + 1][2]>>,
         kwargs |-> ls[k].kwargs]]

\* Render.next_frame, whole: the store, the array and the lines it leaves, and
\* the exception it ends with
next_frame(fs, ns, rad, c, ar, ls) ==
    LET n == Len(ns)
        nv == [k \in 1..n |-> NewValue(fs, ns, rad, c, ns[k])]
        failK == First({k \in 1..n : nv[k].err # "ok"})
        \* the passes made before one raised have stored their angle
        computed == [k \in 1..n |->
                        IF failK = 0 \/ k < failK
                        THEN [ns[k] EXCEPT !.theta = nv[k].theta] ELSE ns[k]]
        failC == First({k \in 1..n : RowMissing(ar, ns[k].i)})
        done(k) == failC = 0 \/ k < failC
        committed == [k \in 1..n |->
                        IF done(k)
                        THEN [computed[k] EXCEPT !.pos = nv[k].pos, !.v = nv[k].v]
                        ELSE computed[k]]
        written == [j \in 1..Len(ar) |->
                        IF \E k \in 1..n : done(k) /\ ns[k].i = j - 1
                        THEN nv[CHOOSE k \in 1..n : ns[k].i = j - 1].pos
                        ELSE ar[j]]
    IN  IF failK # 0
        THEN [nodes |-> computed, nodes_ar |-> ar, lines |-> ls, err |-> nv[failK].err]
        ELSE IF failC # 0
        THEN [nodes |-> committed, nodes_ar |-> written, lines |-> ls, err |-> "IndexError"]
        ELSE [nodes |-> committed, nodes_ar |-> written,
              lines |-> RefreshLines(ls, written), err |-> "ok"]

(* ------------------------------ the calls ------------------------------ *)

\* add_node without the test of i in self.nodes: self.nodes[i] = node replaces
\* the node stored under i
add_node_NoCheck(ns, ls, rad, c, i, pos, theta, link_to, mass, static, rnd) ==
    LET th == IF pos = <<>> /\ theta = <<>> THEN <<rnd>> ELSE theta
        mass1 == IF mass = <<>> \/ mass = <<0>> THEN m ELSE mass[1]
    IN  IF pos = <<>> /\ rad = <<>>
        THEN [nodes |-> ns, lines |-> ls, err |-> "TypeError"]
        ELSE LET r == rad[1]
                 p == IF pos = <<>>
                      THEN VAdd(c, <<r * Cos(th[1]), r * Sin(th[1])>>) ELSE pos[1]
                 node == Node(i, p, static, mass1, th)
             IN  [nodes |-> IF i \in NodeIds(ns)
                            THEN [k \in 1..Len(ns) |-> IF ns[k].i = i THEN node ELSE ns[k]]
                            ELSE Append(ns, node),
                  lines |-> IF link_to = <<>> THEN ls ELSE link(ls, i, link_to[1], "plain"),
                  err |-> "ok"]

\* Render.add_node(i, pos, theta, link_to, mass, static); rnd is the draw of
\* np.random.rand().  The store and the lines it leaves, and the exception raised.
add_node(ns, ls, rad, c, i, pos, theta, link_to, mass, static, rnd) ==
    LET th == IF pos = <<>> /\ theta = <<>> THEN <<rnd>> ELSE theta
        mass1 == IF mass = <<>> \/ mass = <<0>> THEN m ELSE mass[1]
    IN  IF pos = <<>> /\ rad = <<>>
        THEN \* r * np.cos(theta) with r = None
             [nodes |-> ns, lines |-> ls, err |-> "TypeError"]
        ELSE IF i \in NodeIds(ns)
        THEN [nodes |-> ns, lines |-> ls, err |-> "ValueError"]
        ELSE LET r == rad[1]
                 p == IF pos = <<>>
                      THEN VAdd(c, <<r * Cos(th[1]), r * Sin(th[1])>>) ELSE pos[1]
             IN  [nodes |-> Append(ns, Node(i, p, static, mass1, th)),
                  lines |-> IF link_to = <<>> THEN ls ELSE link(ls, i, link_to[1], "plain"),
                  err |-> "ok"]

\* Render.add_force(node0, node1, force): the registry it leaves
add_force(fs, a, b, law) ==
    [fs EXCEPT ![nmlz(a, b)] = Append(@, law)]

\* the free nodes are still and no node feels a force
AtRest(fs, ns) ==
    \A k \in 1..Len(ns) :
        /\ ~ns[k].static => ns[k].v = VZero
        /\ force_on(fs, ns, ns[k]) = VZero

\* with a radius set, every free node that has an angle lies on the circle at it
CircleConsistent(ns, rad, c) ==
    RadiusOn(rad) =>
        \A k \in 1..Len(ns) :
            (~ns[k].static /\ ns[k].theta # <<>>)
                => ns[k].pos = OnCircle(c, rad[1], ns[k].theta[1])

RECURSIVE CountLaws(_, _)
CountLaws(fs, ks) ==
    IF ks = {} THEN 0
    ELSE LET k == CHOOSE x \in ks : TRUE IN Len(fs[k]) + CountLaws(fs, ks \ {k})

(* ------------------- src/hamiltonian/render.py ------------------------- *)

\* the names add_node is called with; a name is looked up among the indexes
HNames == {0, 7}
\* the positions add_node is called with
HPosChoices == {<<100, 100>>}
\* draws of np.random.rand(2) * 0.01: each component is below 0.01, that is 0 or 1
\* in units of 0.005
HRand == {<<0, 1>>, <<1, 0>>}

\* Node.__init__
HNode(index, name, posi, static) ==
    [index |-> index, name |-> name, pos |-> posi, static |-> static]

\* Render.__init__
HRender == [nodes |-> <<>>, lines |-> <<>>, nodes_ar |-> <<>>]

\* Node.next_pos; rnd is the draw of np.random.rand(2) * 0.01
next_pos(node, rnd) == IF node.static THEN node.pos ELSE VAdd(node.pos, rnd)

\* Render.next_index
next_index(r) == Len(r.nodes)

\* Render.add_node(name, pos, static): the Render it leaves and the exception raised
Hadd_node(r, name, pos, static) ==
    LET index == next_index(r)
    IN  IF name \in {r.nodes[k].index : k \in 1..Len(r.nodes)}
        THEN [render |-> r, err |-> "ValueError"]
        ELSE [render |-> [r EXCEPT !.nodes = Append(@, HNode(index, name, pos, static)),
                                   !.nodes_ar = Append(@, pos)],
              err |-> "ok"]

\* Render.add_link(a, b, kwargs), on the nodes of indexes a and b
Hadd_link(r, a, b) ==
    LET id == nmlz(a, b)
    IN  [r EXCEPT !.lines = [k \in DOMAIN r.lines \cup {id} |->
                                IF k = id THEN [x |-> <<a>>, y |-> <<b>>] ELSE r.lines[k]]]

\* Render.next_frame; rnd[k] is the draw made for the k-th node
Hnext_frame(r, rnd) ==
    LET moved == [k \in 1..Len(r.nodes) |->
                    [r.nodes[k] EXCEPT !.pos = next_pos(r.nodes[k], rnd[k])]]
        ar == [k \in 1..Len(r.nodes) |-> moved[k].pos]
    IN  [nodes |-> moved,
         nodes_ar |-> ar,
         lines |-> [k \in DOMAIN r.lines |->
                        [x |-> <<ar[k[1] + 1][1], ar[k[2] + 1][1]>>,
                         y |-> <<ar[k[1] + 1][2], ar[k[2] + 1][2]>>]]]

NoCall == [op |-> "none", err |-> "ok", a |-> 0, b |-> 0, rest |-> FALSE]
Call(op, err, a, b) == [op |-> op, err |-> err, a |-> a, b |-> b, rest |-> FALSE]

NoProbe == [law |-> [K |-> 0, l0 |-> 0], d |-> VZero, out |-> VZero, done |-> FALSE]

Init ==
    /\ engine \in {"forcegraph", "hamiltonian"}
    /\ ham = HRender
    /\ phase = "new"
    /\ nodes = <<>>
    /\ forces = [k \in Keys |-> <<>>]
    /\ lines = <<>>
    /\ radius = <<>>
    /\ center = Center0
    /\ nodes_ar = <<>>
    /\ steps = 0
    /\ last = NoCall
    /\ probe = NoProbe

\* the nodes and laws registered since load() added node 0
SetupSize == (Len(nodes) - 1) + CountLaws(forces, Keys)

\* the init callback, or a caller between two frames, calls add_node
AddNode ==
    /\ phase # "new"
    /\ \E i \in Ids, arg \in NodeArgs :
       \E rnd \in (IF arg.pos = <<>> /\ arg.theta = <<>> THEN Angles ELSE {0}) :
        LET res == add_node(nodes, lines, radius, center,
                            i, arg.pos, arg.theta, arg.link_to, arg.mass, arg.static, rnd)
        IN  /\ res.err = "ok" => SetupSize < MaxSetup
            /\ nodes' = res.nodes
            /\ lines' = res.lines
            /\ last' = Call("add_node", res.err, i, 0)
    /\ UNCHANGED <<phase, forces, radius, center, nodes_ar, steps, probe, engine, ham>>

\* the init callback calls add_force on two nodes of the store
AddForce ==
    /\ phase = "init"
    /\ SetupSize < MaxSetup
    /\ \E a \in NodeIds(nodes), b \in NodeIds(nodes), law \in LawChoices :
        /\ a # b
        /\ forces' = add_force(forces, a, b, law)
        /\ lines' = link(lines, a, b, "force")
        /\ last' = Call("add_force", "ok", a, b)
    /\ UNCHANGED <<phase, nodes, radius, center, nodes_ar, steps, probe, engine, ham>>

\* Render.set_radius(radius, center=None)
set_radius(c, r, cen) == [radius |-> <<r>>, center |-> IF cen = <<>> THEN c ELSE cen[1]]

\* the init callback, or a caller between two frames, configures the circle
SetRadius ==
    /\ phase # "new"
    /\ radius = <<>>
    /\ \E r \in RadiusChoices :
        LET res == set_radius(center, r, <<>>)
        IN  /\ radius' = res.radius
            /\ center' = res.center
            /\ last' = Call("set_radius", "ok", 0, 0)
    /\ UNCHANGED <<phase, nodes, forces, lines, nodes_ar, steps, probe, engine, ham>>

\* Render.load, up to the call of init: self.add_node(0, pos=self.center, static=True)
LoadBegin ==
    /\ engine = "forcegraph"
    /\ phase = "new"
    /\ LET res == add_node(nodes, lines, radius, center,
                           0, <<center>>, <<>>, <<>>, <<>>, TRUE, 0)
       IN  /\ nodes' = res.nodes
           /\ lines' = res.lines
           /\ phase' = IF res.err = "ok" THEN "init" ELSE "new"
           /\ last' = Call("load", res.err, 0, 0)
    /\ UNCHANGED <<forces, radius, center, nodes_ar, steps, probe, engine, ham>>

\* the step, applied to the array ar
Step(ar, op) ==
    LET res == next_frame(forces, nodes, radius, center, ar, lines)
    IN  /\ nodes' = res.nodes
        /\ nodes_ar' = res.nodes_ar
        /\ lines' = res.lines
        /\ steps' = steps + 1
        /\ last' = [Call(op, res.err, 0, 0) EXCEPT
                        !.rest = AtRest(forces, nodes)
                                    /\ CircleConsistent(nodes, radius, center)]

\* Render.load, after init returned: the array is allocated and the first frame computed
LoadEnd ==
    /\ phase = "init"
    /\ steps < MaxSteps
    /\ Step([j \in 1..Len(nodes) |-> VZero], "next_frame")
    /\ phase' = "run"
    /\ UNCHANGED <<forces, radius, center, probe, engine, ham>>

\* Render.draw_frame: the driver's tick
DrawFrame ==
    /\ phase = "run"
    /\ steps < MaxSteps
    /\ Step(nodes_ar, "next_frame")
    /\ UNCHANGED <<phase, forces, radius, center, probe, engine, ham>>

\* a caller, or the callback of a frame, calls add_node
HAddNode ==
    /\ engine = "hamiltonian"
    /\ \E name \in HNames, pos \in HPosChoices, static \in BOOLEAN :
        LET res == Hadd_node(ham, name, pos, static)
        IN  /\ res.err = "ok" => Len(ham.nodes) < MaxSetup - 1
            /\ ham' = res.render
            /\ last' = Call("h_add_node", res.err, name, 0)
    /\ UNCHANGED <<phase, nodes, forces, lines, radius, center, nodes_ar, steps, probe, engine>>

\* a caller links two nodes it got from get_node
HAddLink ==
    /\ engine = "hamiltonian"
    /\ \E a, b \in 1..Len(ham.nodes) :
        /\ a < b
        /\ ham' = Hadd_link(ham, ham.nodes[a].index, ham.nodes[b].index)
        /\ last' = Call("h_add_link", "ok", ham.nodes[a].index, ham.nodes[b].index)
    /\ UNCHANGED <<phase, nodes, forces, lines, radius, center, nodes_ar, steps, probe, engine>>

\* Render.draw_frame: the driver's tick
HDrawFrame ==
    /\ engine = "hamiltonian"
    /\ steps < MaxSteps
    /\ \E rnd \in [1..Len(ham.nodes) -> HRand] :
        ham' = Hnext_frame(ham, rnd)
    /\ steps' = steps + 1
    /\ last' = Call("h_next_frame", "ok", 0, 0)
    /\ UNCHANGED <<phase, nodes, forces, lines, radius, center, nodes_ar, probe, engine>>

Next ==
    \/ AddNode
    \/ AddForce
    \/ SetRadius
    \/ LoadBegin
    \/ LoadEnd
    \/ DrawFrame
    \/ HAddNode
    \/ HAddLink
    \/ HDrawFrame

Spec == Init /\ [][Next]_vars

(* ---------------- Spring.get_force, evaluated on its own ---------------- *)

ProbeLaws == [K : (-MaxProbe)..MaxProbe, l0 : 0..MaxProbe]
ProbeVecs == ((-MaxProbe)..MaxProbe) \X ((-MaxProbe)..MaxProbe)

InitSpring ==
    /\ engine = "forcegraph"
    /\ ham = HRender
    /\ phase = "new"
    /\ nodes = <<>>
    /\ forces = [k \in Keys |-> <<>>]
    /\ lines = <<>>
    /\ radius = <<>>
    /\ center = Center0
    /\ nodes_ar = <<>>
    /\ steps = 0
    /\ last = NoCall
    /\ \E law \in ProbeLaws, d \in ProbeVecs :
            probe = [law |-> law, d |-> d, out |-> VZero, done |-> FALSE]

\* force.get_force(node, node0, d)
EvalSpring ==
    /\ ~probe.done
    /\ probe' = [probe EXCEPT !.out = get_force(probe.law, probe.d), !.done = TRUE]
    /\ UNCHANGED <<phase, nodes, forces, lines, radius, center, nodes_ar, steps, last, engine, ham>>

NextSpring == EvalSpring

SpecSpring == InitSpring /\ [][NextSpring]_vars

(* ------------------------------ the claims ------------------------------ *)

\* a call of next_frame is being made in this step
Stepping == steps' = steps + 1

\* a law is registered on a pair that includes node i
HasLaw(i) == \E j \in Ids : forces[nmlz(i, j)] # <<>>

\* C1: a node created with static=True keeps its position, its velocity and
\* its angle through every call, next_frame included, whatever laws are
\* registered on its pairs and whether or not a radius is set.
C1_StaticNodesNeverChange ==
    [][/\ \A k \in 1..Len(nodes) :
            nodes[k].static => (k <= Len(nodes') /\ nodes'[k] = nodes[k])
       /\ \A k \in 1..Len(ham.nodes) :
            ham.nodes[k].static
                => (k <= Len(ham'.nodes) /\ ham'.nodes[k] = ham.nodes[k])]_vars

\* C1, its case: a frame has been computed with a radius set, a static node
\* that has an angle carries a law, and a free node has been set in motion.
C1_Witness ==
    /\ last.op = "next_frame" /\ last.err = "ok"
    /\ RadiusOn(radius)
    /\ \E k \in 1..Len(nodes) :
            nodes[k].static /\ nodes[k].theta # <<>> /\ HasLaw(nodes[k].i)
    /\ \E k \in 1..Len(nodes) : ~nodes[k].static /\ nodes[k].v # VZero

\* the orders in which a store of n nodes can be iterated
Orders(n) == {p \in [1..n -> 1..n] : \A a, b \in 1..n : a # b => p[a] # p[b]}
Reordered(ns, p) == [k \in 1..Len(ns) |-> ns[p[k]]]
\* new_values, as the first loop of next_frame fills it for the store ns
NewValuesById(ns) ==
    [i \in NodeIds(ns) |->
        LET nv == NewValue(forces, ns, radius, center, NodeAt(ns, i))
        IN  <<nv.pos, nv.v>>]

\* C2: the next position and velocity of every node, computed from the state
\* at the start of the step, do not depend on the order in which the nodes
\* of the store are iterated.
C2_StepIsOrderIndependent ==
    \A p \in Orders(Len(nodes)) :
        NewValuesById(Reordered(nodes, p)) = NewValuesById(nodes)

\* C3: in a store of two or more nodes, force_on(node) is the sum of the
\* pairwise contributions plus minus the velocity of that same node times the
\* friction coefficient.
C3_DampingUsesOwnVelocity ==
    Len(nodes) >= 2 =>
        \A k \in 1..Len(nodes) :
            ~nodes[k].static =>
                force_on(forces, nodes, nodes[k])
                    = VAdd(PairSum(forces, nodes, nodes[k], Len(nodes)),
                           VScale(-f, nodes[k].v))

\* the ids of the store are pairwise distinct
UniqueIds == \A j, k \in 1..Len(nodes) : nodes[j].i = nodes[k].i => j = k

\* C4: the ids of the store are unique, and add_node with an id that is
\* present fails, leaving the store (every node's position, velocity, mass and
\* static flag) and the lines as they were.
C4_DuplicateIdRejected ==
    /\ []UniqueIds
    /\ [][(last'.op \in {"add_node", "load"} /\ last' # last
            /\ last'.a \in NodeIds(nodes))
            => (last'.err # "ok" /\ nodes' = nodes /\ lines' = lines)]_vars

\* C4, its case: add_node has just failed on an id of a store that holds
\* several nodes and a line.
C4_Witness ==
    /\ last.op = "add_node" /\ last.err = "ValueError"
    /\ last.a \in NodeIds(nodes)
    /\ Len(nodes) >= 2
    /\ DOMAIN lines # {}

\* C5: with a radius set, after every next_frame every free node that has an
\* angle lies on the circle at its stored angle.
C5_OnCircleAfterStep ==
    (last.op = "next_frame" /\ RadiusOn(radius)) =>
        \A k \in 1..Len(nodes) :
            (~nodes[k].static /\ nodes[k].theta # <<>>)
                => nodes[k].pos = OnCircle(center, radius[1], nodes[k].theta[1])

Min(i, j) == IF i <= j THEN i ELSE j
Max(i, j) == IF i <= j THEN j ELSE i

\* C6: nmlz(i, j) = nmlz(j, i) = (min, max) for all ids, and a law given to
\* add_force(a, b) is stored under that one key, where force_on finds it from
\* a and from b alike.
C6_PairKeyUnordered ==
    /\ \A i, j \in Ids : nmlz(i, j) = nmlz(j, i) /\ nmlz(i, j) = <<Min(i, j), Max(i, j)>>
    /\ last.op = "add_force" =>
        /\ forces[<<Min(last.a, last.b), Max(last.a, last.b)>>] # <<>>
        /\ LawsApplied(forces, last.a, last.b) = LawsApplied(forces, last.b, last.a)
        /\ LawsApplied(forces, last.a, last.b)
                = forces[<<Min(last.a, last.b), Max(last.a, last.b)>>]
        /\ CountLaws(forces, DOMAIN forces) = CountLaws(forces, Keys)

\* C6, its case: add_force was called with the larger id first.
C6_Witness ==
    /\ last.op = "add_force"
    /\ last.a > last.b
    /\ LawsApplied(forces, last.b, last.a) # <<>>

\* every node has the position and velocity it had before the step
SamePosVel ==
    /\ Len(nodes') = Len(nodes)
    /\ \A k \in 1..Len(nodes) :
            nodes'[k].pos = nodes[k].pos /\ nodes'[k].v = nodes[k].v

\* C7, as stated: next_frame from a state in which every free node is still
\* and no node feels a force leaves every position and velocity as it was,
\* with or without a radius.
C7_FixedPoint ==
    [][(Stepping /\ AtRest(forces, nodes)) => SamePosVel]_vars

\* C7, amended: the same, for a state in which, when a radius is set, every
\* free node that has an angle lies on the circle at that angle.
C7_FixedPointOnCircle ==
    [][(Stepping /\ AtRest(forces, nodes) /\ CircleConsistent(nodes, radius, center))
            => SamePosVel]_vars

\* C7, its case: a frame was computed from such a state of rest, with a radius
\* set, for a free node at an angle that carries a law.
C7_Witness ==
    /\ last.op = "next_frame" /\ last.err = "ok" /\ last.rest
    /\ RadiusOn(radius)
    /\ \E k \in 1..Len(nodes) :
            ~nodes[k].static /\ nodes[k].theta # <<>> /\ HasLaw(nodes[k].i)

\* the displacement evaluated is shorter than 0.01
NearZero == Norm(probe.d) < Threshold

\* C8, as stated: get_force returns the zero vector for every displacement
\* shorter than 0.01, for every K and every l0, l0 = 0 included.
C8_ZeroBelowThreshold ==
    (probe.done /\ NearZero) => probe.out = VZero

\* C8, amended: get_force returns the zero vector for every displacement
\* shorter than 0.01 when l0 is not 0; when l0 is 0 it returns K * d.
C8_ZeroBelowThresholdUnlessL0Zero ==
    probe.done =>
        /\ (NearZero /\ probe.law.l0 # 0) => probe.out = VZero
        /\ probe.law.l0 = 0 => probe.out = VScale(probe.law.K, probe.d)

\* C8, its case: a general spring evaluated on a short displacement that is
\* not zero.
C8_Witness ==
    /\ probe.done /\ NearZero
    /\ probe.d # VZero /\ probe.law.l0 # 0 /\ probe.law.K # 0

\* C9: next_frame does not fail on the size of the array, and after a frame
\* that completed row id of the array is the position of node id.
C9_ArrayMirrorsStore ==
    last.op = "next_frame" =>
        /\ last.err # "IndexError"
        /\ last.err = "ok" =>
                \A k \in 1..Len(nodes) :
                    /\ ~RowMissing(nodes_ar, nodes[k].i)
                    /\ nodes_ar[nodes[k].i + 1] = nodes[k].pos

\* C10: with a radius set, next_frame does not fail on a free node that has
\* no angle, and moves it by v' = v + F * T / mass, pos' = pos + v' * T.
C10_ModePerNode ==
    [][(Stepping /\ RadiusOn(radius))
        => \A k \in 1..Len(nodes) :
            (~nodes[k].static /\ nodes[k].theta = <<>>) =>
                /\ last'.err # "TypeError"
                /\ last'.err = "ok" =>
                    LET nv == FreeUpdate(nodes[k], force_on(forces, nodes, nodes[k]))
                    IN  nodes'[k].pos = nv.pos /\ nodes'[k].v = nv.v]_vars

====
